---- MODULE Spec2Model ----
(***************************************************************************)
(* Model of universe.py: the Universe container (src/universe/obj/         *)
(* universe.py), the MassiveBody kinematics and pair force                 *)
(* (src/universe/obj/massive_body.py) and the speed controls of the        *)
(* settings window (src/universe/gfx/settings_window.py).                  *)
(*                                                                         *)
(* Arithmetic.  The program computes in float64; the model computes on the *)
(* integer grid.  Sums and products are exact.  The two divisions of the   *)
(* program are modelled by what they do on that grid:                      *)
(*   - velocity * delta_time / 2 is (velocity * delta_time) \div 2; every  *)
(*     elapsed time of ElapsedValues is even, so every substep length is   *)
(*     even and the quotient is exact;                                     *)
(*   - G / distance_cubed is the quotient rounded toward zero, and raises  *)
(*     ZeroDivisionError when distance_cubed is 0 (numba's default         *)
(*     error_model for njit-compiled code).                                *)
(* G is given in model units (length and mass units chosen so that bodies  *)
(* one length unit apart attract each other).                              *)
(***************************************************************************)
EXTENDS Integers, Sequences, FiniteSets, TLC

\* ------------------------------------------------------------------------
\* Bounds of the model
\* ------------------------------------------------------------------------
MaxBodies == 2          \* MassiveBody objects constructed, and registrations
MaxUpdates == 1         \* Universe.update() calls
MaxSpeedIndex == 1      \* highest SPEEDS index the user selects

\* elapsed real time handed to Universe.update() (all even, see above)
ElapsedValues == {0, 720, 1080}

\* values a user of the Universe class writes to time_scale directly
DirectTimeScales == {-5, -1, 1, 5}

\* arguments of MassiveBody(mass, radius, position, velocity)
BodyInputs ==
  { <<2, 1, <<0, 0>>, <<0, 0>> >>,
    <<1, 0, <<1, 0>>, <<0, 1>> >>,
    <<0, 1, <<0, 1>>, <<0, 0>> >>,
    <<1, -1, <<5, 5>>, <<-1, 0>> >> }

\* ------------------------------------------------------------------------
\* Program constants
\* ------------------------------------------------------------------------
MAX_DELTA_TIME == 60 * 60

G == 2

SPEEDS ==
  << 1, 5, 30, 60, 60 * 5, 60 * 15, 60 * 30, 60 * 60, 60 * 60 * 2,
     60 * 60 * 5, 60 * 60 * 12, 60 * 60 * 24, 60 * 60 * 24 * 3,
     60 * 60 * 24 * 7, 60 * 60 * 24 * 7 * 2, 60 * 60 * 24 * 7 * 4,
     60 * 60 * 24 * 7 * 4 * 2, 60 * 60 * 24 * 7 * 4 * 3,
     60 * 60 * 24 * 7 * 4 * 6, 60 * 60 * 24 * 7 * 4 * 12,
     60 * 60 * 24 * 7 * 4 * 12 * 2, 60 * 60 * 24 * 7 * 4 * 12 * 5,
     60 * 60 * 24 * 7 * 4 * 12 * 10 >>

\* ------------------------------------------------------------------------
\* State
\* ------------------------------------------------------------------------
VARIABLES
  objs,            \* the MassiveBody objects constructed so far (handle = index)
  massive_bodies,  \* Universe.massive_bodies: handles, in append order
  current_id,      \* Universe.current_id
  time_scale,      \* Universe.time_scale
  speed_slider,    \* SettingsWindow.speed_slider.value()
  speed_combobox,  \* SettingsWindow.speed_combobox.currentIndex()
  value_changing,  \* SettingsWindow.value_changing
  stack,           \* the settings thread's running callbacks, innermost last:
                   \*   [handler, new_index, at] per callback
  pc,              \* position of the thread running Universe.update()
  delta_time,      \* local of update(): delta_time after line 39
  steps,           \* local of update(): elements of the arange not yet iterated
  step,            \* local of update(): the substep length of this iteration
  elapsed,         \* history: the argument of the running/last update()
  ts_read,         \* history: time_scale as read by the running/last update()
  pre,             \* history: objs when the running/last update() was entered
  substeps,        \* history: substep lengths executed by the running/last update()
  trace,           \* history: the phases executed by the running/last update():
                   \*   <<"half1", kick applied>>, <<"gravity", pairs evaluated>>,
                   \*   <<"half2", kick applied>>
  updates          \* history: number of update() calls made

vars == << objs, massive_bodies, current_id, time_scale, speed_slider,
           speed_combobox, value_changing, stack, pc, delta_time, steps, step,
           elapsed, ts_read, pre, substeps, trace, updates >>

universeVars == << massive_bodies, current_id >>
settingsVars == << speed_slider, speed_combobox, value_changing, stack >>
updateVars == << pc, delta_time, steps, step, elapsed, ts_read, pre,
                 substeps, trace, updates >>

\* ------------------------------------------------------------------------
\* numpy arithmetic on 2-vectors
\* ------------------------------------------------------------------------
VAdd(a, b) == << a[1] + b[1], a[2] + b[2] >>

VSub(a, b) == << a[1] - b[1], a[2] - b[2] >>

VScale(k, a) == << k * a[1], k * a[2] >>

VHalf(a) == << a[1] \div 2, a[2] \div 2 >>

dot(a, b) == a[1] * b[1] + a[2] * b[2]

Zero2 == << 0, 0 >>

Abs(x) == IF x < 0 THEN -x ELSE x

\* arange with one element where np.arange is empty
arange_never_empty(start, stop, stride) ==
  LET n == IF stop > start THEN (stop - start + stride - 1) \div stride ELSE 1
  IN  [ i \in 1..n |-> start + (i - 1) * stride ]

\* np.arange(start, stop, stride) for stride > 0
arange(start, stop, stride) ==
  LET n == IF stop > start THEN (stop - start + stride - 1) \div stride ELSE 0
  IN  [ i \in 1..n |-> start + (i - 1) * stride ]

\* ------------------------------------------------------------------------
\* MassiveBody
\* ------------------------------------------------------------------------
\* MassiveBody.__init__
MassiveBody(mass, radius, position, velocity) ==
  [ mass |-> mass, radius |-> radius, position |-> position,
    velocity |-> velocity, acceleration |-> Zero2, id |-> -1 ]

\* update_half_step drifting with the velocity from before the kick
update_half_step_old_velocity(self, dt, is_first_step) ==
  LET velocity == IF ~is_first_step
                    THEN VAdd(self.velocity, VScale(dt, self.acceleration))
                    ELSE self.velocity
      position == VAdd(self.position, VHalf(VScale(dt, self.velocity)))
  IN  [ self EXCEPT !.velocity = velocity,
                    !.position = position,
                    !.acceleration = Zero2 ]

\* update_half_step without the reset of acceleration
update_half_step_no_reset(self, dt, is_first_step) ==
  LET velocity == IF ~is_first_step
                    THEN VAdd(self.velocity, VScale(dt, self.acceleration))
                    ELSE self.velocity
      position == VAdd(self.position, VHalf(VScale(dt, velocity)))
  IN  [ self EXCEPT !.velocity = velocity,
                    !.position = position ]

\* MassiveBody.update_half_step
update_half_step(self, dt, is_first_step) ==
  LET velocity == IF ~is_first_step
                    THEN VAdd(self.velocity, VScale(dt, self.acceleration))
                    ELSE self.velocity
      position == VAdd(self.position, VHalf(VScale(dt, velocity)))
  IN  [ self EXCEPT !.velocity = velocity,
                    !.position = position,
                    !.acceleration = Zero2 ]

\* G / distance_cubed, where distance_cubed = q ** (3 / 2): the largest k
\* with k * q ** (3 / 2) <= G, i.e. k * k * q * q * q <= G * G.
\* For q > G the quotient is 0 (and q * q * q is not computed).
GOverDistanceCubed(q) ==
  IF q > G THEN 0
  ELSE CHOOSE k \in 0..G :
         /\ k * k * q * q * q <= G * G
         /\ (k + 1) * (k + 1) * q * q * q > G * G

\* dot(distance_vec, distance_vec), not computed beyond G where the
\* quotient above is 0 anyway
DistanceSquared(v) ==
  IF Abs(v[1]) > G \/ Abs(v[2]) > G THEN G + 1 ELSE dot(v, v)

\* apply_mirrored_gravity adding the field to both bodies
apply_mirrored_gravity_same_sign(o, i, j) ==
  LET distance_vec == VSub(o[j].position, o[i].position)
      q == DistanceSquared(distance_vec)
      force == VScale(GOverDistanceCubed(q), distance_vec)
      o1 == [ o EXCEPT ![i].acceleration =
                VAdd(o[i].acceleration, VScale(o[j].mass, force)) ]
      o2 == [ o1 EXCEPT ![j].acceleration =
                VAdd(o1[j].acceleration, VScale(o1[i].mass, force)) ]
  IN  IF q = 0 THEN [ objs |-> o, err |-> TRUE ]
      ELSE [ objs |-> o2, err |-> FALSE ]

\* apply_mirrored_gravity scaling both contributions by other.mass
apply_mirrored_gravity_other_mass(o, i, j) ==
  LET distance_vec == VSub(o[j].position, o[i].position)
      q == DistanceSquared(distance_vec)
      force == VScale(GOverDistanceCubed(q), distance_vec)
      o1 == [ o EXCEPT ![i].acceleration =
                VAdd(o[i].acceleration, VScale(o[j].mass, force)) ]
      o2 == [ o1 EXCEPT ![j].acceleration =
                VSub(o1[j].acceleration, VScale(o1[j].mass, force)) ]
  IN  IF q = 0 THEN [ objs |-> o, err |-> TRUE ]
      ELSE [ objs |-> o2, err |-> FALSE ]

\* apply_mirrored_gravity skipping a pair at zero distance instead of raising
apply_mirrored_gravity_guarded(o, i, j) ==
  LET distance_vec == VSub(o[j].position, o[i].position)
      q == DistanceSquared(distance_vec)
      force == VScale(GOverDistanceCubed(q), distance_vec)
      o1 == [ o EXCEPT ![i].acceleration =
                VAdd(o[i].acceleration, VScale(o[j].mass, force)) ]
      o2 == [ o1 EXCEPT ![j].acceleration =
                VSub(o1[j].acceleration, VScale(o1[i].mass, force)) ]
  IN  IF q = 0 THEN [ objs |-> o, err |-> FALSE ]
      ELSE [ objs |-> o2, err |-> FALSE ]

\* MassiveBody.apply_mirrored_gravity on the objects with handles i and j of
\* the heap o; err is set when the division raises ZeroDivisionError
apply_mirrored_gravity(o, i, j) ==
  LET distance_vec == VSub(o[j].position, o[i].position)
      q == DistanceSquared(distance_vec)
      force == VScale(GOverDistanceCubed(q), distance_vec)
      o1 == [ o EXCEPT ![i].acceleration =
                VAdd(o[i].acceleration, VScale(o[j].mass, force)) ]
      o2 == [ o1 EXCEPT ![j].acceleration =
                VSub(o1[j].acceleration, VScale(o1[i].mass, force)) ]
  IN  IF q = 0 THEN [ objs |-> o, err |-> TRUE ]
      ELSE [ objs |-> o2, err |-> FALSE ]

\* ------------------------------------------------------------------------
\* Universe.update: the loops over massive_bodies
\* ------------------------------------------------------------------------
\* the flag set at the first half-step of every substep
is_first_step_each_substep(substep, half) == half = 1

\* the flag update() hands to update_half_step: the source passes none
\* (universe.py:45 and :53); the specification (4.3 step 3) skips the kick in
\* the first half-step of the first substep of a call only
is_first_step(substep, half) == substep = 1 /\ half = 1

RECURSIVE HalfStepLoop(_, _, _, _, _)
\* for massive_body in self.massive_bodies: massive_body.update_half_step(step)
HalfStepLoop(o, mb, k, dt, first) ==
  IF k > Len(mb) THEN o
  ELSE HalfStepLoop([ o EXCEPT ![mb[k]] = update_half_step(o[mb[k]], dt, first) ],
                    mb, k + 1, dt, first)

RECURSIVE GravityLoop_inner_from_i(_, _, _, _)
\* the inner loop written as range(i, total_bodies)
GravityLoop_inner_from_i(o, mb, i, j) ==
  IF i > Len(mb) THEN [ objs |-> o, err |-> FALSE, pairs |-> << >> ]
  ELSE IF j > Len(mb) THEN GravityLoop_inner_from_i(o, mb, i + 1, i + 1)
  ELSE LET r == apply_mirrored_gravity(o, mb[i], mb[j])
       IN  IF r.err
             THEN [ objs |-> r.objs, err |-> TRUE, pairs |-> << <<i, j>> >> ]
             ELSE [ GravityLoop_inner_from_i(r.objs, mb, i, j + 1)
                      EXCEPT !.pairs = << <<i, j>> >> \o @ ]

RECURSIVE GravityLoop(_, _, _, _)
\* for i in range(total_bodies): for j in range(i + 1, total_bodies): ...
\* pairs lists the index pairs (i, j) handed to apply_mirrored_gravity, in order
GravityLoop(o, mb, i, j) ==
  IF i > Len(mb) THEN [ objs |-> o, err |-> FALSE, pairs |-> << >> ]
  ELSE IF j > Len(mb) THEN GravityLoop(o, mb, i + 1, i + 2)
  ELSE LET r == apply_mirrored_gravity(o, mb[i], mb[j])
       IN  IF r.err
             THEN [ objs |-> r.objs, err |-> TRUE, pairs |-> << <<i, j>> >> ]
             ELSE [ GravityLoop(r.objs, mb, i, j + 1)
                      EXCEPT !.pairs = << <<i, j>> >> \o @ ]

\* StepLength capping the remaining time: min(remaining, MAX_DELTA_TIME)
StepLength_min(total, s) ==
  LET remaining == total - s
  IN  IF remaining > MAX_DELTA_TIME THEN MAX_DELTA_TIME ELSE remaining

\* StepLength with the comparison remaining >= 0
StepLength_ge(total, s) ==
  LET remaining == total - s
  IN  IF remaining >= 0 THEN MAX_DELTA_TIME ELSE remaining

\* lines 41-43: the substep length of the iteration at arange element s
StepLength(total, s) ==
  LET remaining == total - s
  IN  IF remaining > 0 THEN MAX_DELTA_TIME ELSE remaining

\* ------------------------------------------------------------------------
\* Initial state: Universe.__init__, SettingsWindow.__init__
\* ------------------------------------------------------------------------
Init ==
  /\ objs = << >>
  /\ massive_bodies = << >>
  /\ current_id = 0
  /\ time_scale = 1
  /\ speed_slider = 0
  /\ speed_combobox = 0
  /\ value_changing = FALSE
  /\ stack = << >>
  /\ pc = "idle"
  /\ delta_time = 0
  /\ steps = << >>
  /\ step = 0
  /\ elapsed = 0
  /\ ts_read = 1
  /\ pre = << >>
  /\ substeps = << >>
  /\ trace = << >>
  /\ updates = 0

\* ------------------------------------------------------------------------
\* Actions of the main thread
\* ------------------------------------------------------------------------
\* MassiveBody(mass, radius, position, velocity)
Construct(in) ==
  /\ pc = "idle"
  /\ Len(objs) < MaxBodies
  /\ objs' = Append(objs, MassiveBody(in[1], in[2], in[3], in[4]))
  /\ UNCHANGED << universeVars, time_scale, settingsVars, updateVars >>

\* Universe.add_massive_body
add_massive_body(b) == Append(massive_bodies, b)

\* py_init assigning the id after the increment of current_id
py_init_id_after_increment(b) ==
  /\ pc = "idle"
  /\ b \in 1..Len(objs)
  /\ Len(massive_bodies) < MaxBodies
  /\ massive_bodies' = add_massive_body(b)
  /\ current_id' = current_id + 1
  /\ objs' = [ objs EXCEPT ![b].id = current_id' ]
  /\ UNCHANGED << time_scale, settingsVars, updateVars >>

\* MassiveBody.py_init(universe) on the object with handle b
py_init(b) ==
  /\ pc = "idle"
  /\ b \in 1..Len(objs)
  /\ Len(massive_bodies) < MaxBodies
  /\ massive_bodies' = add_massive_body(b)
  /\ objs' = [ objs EXCEPT ![b].id = current_id ]
  /\ current_id' = current_id + 1
  /\ UNCHANGED << time_scale, settingsVars, updateVars >>

\* update_begin writing the scaled time back to self.time_scale
update_begin_scales_field(t) ==
  /\ pc = "idle"
  /\ updates < MaxUpdates
  /\ updates' = updates + 1
  /\ elapsed' = t
  /\ ts_read' = time_scale
  /\ pre' = objs
  /\ substeps' = << >>
  /\ trace' = << >>
  /\ delta_time' = t * time_scale
  /\ time_scale' = delta_time'
  /\ steps' = arange(0, delta_time' + MAX_DELTA_TIME, MAX_DELTA_TIME)
  /\ pc' = IF steps' = << >> THEN "done" ELSE "half1"
  /\ UNCHANGED << objs, universeVars, settingsVars, step >>

\* Universe.update(t), lines 39-40: scale the elapsed time, build the arange
update_begin(t) ==
  /\ pc = "idle"
  /\ updates < MaxUpdates
  /\ updates' = updates + 1
  /\ elapsed' = t
  /\ ts_read' = time_scale
  /\ pre' = objs
  /\ substeps' = << >>
  /\ trace' = << >>
  /\ delta_time' = t * time_scale
  /\ steps' = arange(0, delta_time' + MAX_DELTA_TIME, MAX_DELTA_TIME)
  /\ pc' = IF steps' = << >> THEN "done" ELSE "half1"
  /\ UNCHANGED << objs, universeVars, time_scale, settingsVars, step >>

\* update_half1 reading self.time_scale again for the remaining time
update_half1_rereads_time_scale ==
  /\ pc = "half1"
  /\ step' = StepLength(elapsed * time_scale, Head(steps))
  /\ steps' = Tail(steps)
  /\ substeps' = Append(substeps, step')
  /\ objs' = HalfStepLoop(objs, massive_bodies, 1, step',
                          is_first_step(Len(substeps'), 1))
  /\ trace' = Append(trace, << "half1", ~is_first_step(Len(substeps'), 1) >>)
  /\ pc' = "gravity"
  /\ UNCHANGED << universeVars, time_scale, settingsVars, delta_time,
                  elapsed, ts_read, pre, updates >>

\* update_half1 followed at once by the second half-step
update_half1_skips_gravity ==
  /\ pc = "half1"
  /\ step' = StepLength(delta_time, Head(steps))
  /\ steps' = Tail(steps)
  /\ substeps' = Append(substeps, step')
  /\ objs' = HalfStepLoop(objs, massive_bodies, 1, step',
                          is_first_step(Len(substeps'), 1))
  /\ trace' = Append(trace, << "half1", ~is_first_step(Len(substeps'), 1) >>)
  /\ pc' = "half2"
  /\ UNCHANGED << universeVars, time_scale, settingsVars, delta_time,
                  elapsed, ts_read, pre, updates >>

\* lines 41-45: next element of the arange, its substep length, first half-step
update_half1 ==
  /\ pc = "half1"
  /\ step' = StepLength(delta_time, Head(steps))
  /\ steps' = Tail(steps)
  /\ substeps' = Append(substeps, step')
  /\ objs' = HalfStepLoop(objs, massive_bodies, 1, step',
                          is_first_step(Len(substeps'), 1))
  /\ trace' = Append(trace, << "half1", ~is_first_step(Len(substeps'), 1) >>)
  /\ pc' = "gravity"
  /\ UNCHANGED << universeVars, time_scale, settingsVars, delta_time,
                  elapsed, ts_read, pre, updates >>

\* lines 46-51: pair forces; a ZeroDivisionError leaves update()
update_gravity ==
  /\ pc = "gravity"
  /\ LET r == GravityLoop(objs, massive_bodies, 1, 2)
     IN  /\ objs' = r.objs
         /\ trace' = Append(trace, << "gravity", r.pairs >>)
         /\ pc' = IF r.err THEN "error" ELSE "half2"
  /\ UNCHANGED << universeVars, time_scale, settingsVars, delta_time, steps,
                  step, elapsed, ts_read, pre, substeps, updates >>

\* update_half2 giving up control between two substeps
update_half2_suspends ==
  /\ pc = "half2"
  /\ objs' = HalfStepLoop(objs, massive_bodies, 1, step,
                          is_first_step(Len(substeps), 2))
  /\ trace' = Append(trace, << "half2", ~is_first_step(Len(substeps), 2) >>)
  /\ pc' = IF steps = << >> THEN "done" ELSE "suspended"
  /\ UNCHANGED << universeVars, time_scale, settingsVars, delta_time, steps,
                  step, elapsed, ts_read, pre, substeps, updates >>

\* lines 52-53: second half-step, then the next iteration or the end of the loop
update_half2 ==
  /\ pc = "half2"
  /\ objs' = HalfStepLoop(objs, massive_bodies, 1, step,
                          is_first_step(Len(substeps), 2))
  /\ trace' = Append(trace, << "half2", ~is_first_step(Len(substeps), 2) >>)
  /\ pc' = IF steps = << >> THEN "done" ELSE "half1"
  /\ UNCHANGED << universeVars, time_scale, settingsVars, delta_time, steps,
                  step, elapsed, ts_read, pre, substeps, updates >>

\* update() returns to its caller; its locals are gone
update_return ==
  /\ pc = "done"
  /\ pc' = "idle"
  /\ delta_time' = 0
  /\ steps' = << >>
  /\ step' = 0
  /\ elapsed' = 0
  /\ ts_read' = 1
  /\ pre' = << >>
  /\ substeps' = << >>
  /\ trace' = << >>
  /\ UNCHANGED << objs, universeVars, time_scale, settingsVars, updates >>

\* ------------------------------------------------------------------------
\* Actions of the settings-window thread
\* ------------------------------------------------------------------------
\* the user moves the speed slider to idx: on_speed_slider_change runs; the
\* currentIndexChanged callback it triggers returns at the value_changing guard
on_speed_slider_change(idx) ==
  /\ idx /= speed_slider
  /\ ~value_changing
  /\ speed_slider' = idx
  /\ time_scale' = SPEEDS[idx + 1]
  /\ speed_combobox' = idx
  /\ value_changing' = FALSE
  /\ UNCHANGED << objs, universeVars, updateVars, stack >>

\* the user selects entry new_index: on_speed_combobox_change runs; the
\* valueChanged callback it triggers returns at the value_changing guard
on_speed_combobox_change(new_index) ==
  /\ new_index /= speed_combobox
  /\ ~value_changing
  /\ speed_combobox' = new_index
  /\ time_scale' = SPEEDS[new_index + 1]
  /\ speed_slider' = new_index
  /\ value_changing' = FALSE
  /\ UNCHANGED << objs, universeVars, updateVars, stack >>

\* ------------------------------------------------------------------------
\* The settings thread step by step: Qt runs a connected callback inside the
\* setter that changed the value, and only when the value did change
\* ------------------------------------------------------------------------
Frame(handler, new_index) ==
  [ handler |-> handler, new_index |-> new_index, at |-> "guard" ]

Top == stack[Len(stack)]

Return == SubSeq(stack, 1, Len(stack) - 1)

Goto(at) == [ stack EXCEPT ![Len(stack)].at = at ]

\* the user moves the speed slider to idx: valueChanged calls
\* on_speed_slider_change (settings_window.py:99)
speed_slider_valueChanged(idx) ==
  /\ stack = << >>
  /\ idx /= speed_slider
  /\ speed_slider' = idx
  /\ stack' = << Frame("slider", idx) >>
  /\ UNCHANGED << objs, universeVars, updateVars, time_scale, speed_combobox,
                  value_changing >>

\* the user selects entry new_index: currentIndexChanged calls
\* on_speed_combobox_change(new_index) (settings_window.py:100)
speed_combobox_currentIndexChanged(new_index) ==
  /\ stack = << >>
  /\ new_index /= speed_combobox
  /\ speed_combobox' = new_index
  /\ stack' = << Frame("combobox", new_index) >>
  /\ UNCHANGED << objs, universeVars, updateVars, time_scale, speed_slider,
                  value_changing >>

\* the handlers entered without the value_changing test
on_speed_change_guard_absent ==
  /\ stack /= << >>
  /\ Top.at = "guard"
  /\ value_changing' = TRUE
  /\ stack' = Goto("write")
  /\ UNCHANGED << objs, universeVars, updateVars, time_scale, speed_slider,
                  speed_combobox >>

\* lines 128-130 and 141-143: if self.value_changing: return;
\* self.value_changing = True
on_speed_change_guard ==
  /\ stack /= << >>
  /\ Top.at = "guard"
  /\ IF value_changing
       THEN stack' = Return /\ UNCHANGED value_changing
       ELSE value_changing' = TRUE /\ stack' = Goto("write")
  /\ UNCHANGED << objs, universeVars, updateVars, time_scale, speed_slider,
                  speed_combobox >>

\* line 131: universe.time_scale = SPEEDS[speed_slider.value()][1]
on_speed_slider_change_write ==
  /\ stack /= << >>
  /\ Top.handler = "slider" /\ Top.at = "write"
  /\ time_scale' = SPEEDS[speed_slider + 1]
  /\ stack' = Goto("sync")
  /\ UNCHANGED << objs, universeVars, updateVars, speed_slider,
                  speed_combobox, value_changing >>

\* line 132: speed_combobox.setCurrentIndex(speed_slider.value())
on_speed_slider_change_sync ==
  /\ stack /= << >>
  /\ Top.handler = "slider" /\ Top.at = "sync"
  /\ speed_combobox' = speed_slider
  /\ stack' = IF speed_combobox /= speed_slider
                THEN Append(Goto("clear"), Frame("combobox", speed_slider))
                ELSE Goto("clear")
  /\ UNCHANGED << objs, universeVars, updateVars, time_scale, speed_slider,
                  value_changing >>

\* line 144: universe.time_scale = SPEEDS[new_index][1]
on_speed_combobox_change_write ==
  /\ stack /= << >>
  /\ Top.handler = "combobox" /\ Top.at = "write"
  /\ time_scale' = SPEEDS[Top.new_index + 1]
  /\ stack' = Goto("sync")
  /\ UNCHANGED << objs, universeVars, updateVars, speed_slider,
                  speed_combobox, value_changing >>

\* line 145: speed_slider.setValue(new_index)
on_speed_combobox_change_sync ==
  /\ stack /= << >>
  /\ Top.handler = "combobox" /\ Top.at = "sync"
  /\ speed_slider' = Top.new_index
  /\ stack' = IF speed_slider /= Top.new_index
                THEN Append(Goto("clear"), Frame("slider", Top.new_index))
                ELSE Goto("clear")
  /\ UNCHANGED << objs, universeVars, updateVars, time_scale, speed_combobox,
                  value_changing >>

\* lines 133 and 146: self.value_changing = False, and the handler returns
on_speed_change_clear ==
  /\ stack /= << >>
  /\ Top.at = "clear"
  /\ value_changing' = FALSE
  /\ stack' = Return
  /\ UNCHANGED << objs, universeVars, updateVars, time_scale, speed_slider,
                  speed_combobox >>

\* universe.time_scale = v, written by the thread that calls update()
set_time_scale(v) ==
  /\ pc = "idle"
  /\ v /= time_scale
  /\ time_scale' = v
  /\ UNCHANGED << objs, universeVars, settingsVars, updateVars >>

\* ------------------------------------------------------------------------
\* Specifications
\* ------------------------------------------------------------------------
Next ==
  \/ \E in \in BodyInputs : Construct(in)
  \/ \E b \in 1..MaxBodies : py_init(b)
  \/ \E t \in ElapsedValues : update_begin(t)
  \/ update_half1
  \/ update_gravity
  \/ update_half2
  \/ update_return
  \/ \E idx \in 0..MaxSpeedIndex : on_speed_slider_change(idx)
  \/ \E idx \in 0..MaxSpeedIndex : on_speed_combobox_change(idx)

\* the application: time_scale is written by the settings window only
Spec == Init /\ [][Next]_vars

NextDirect ==
  \/ \E in \in BodyInputs : Construct(in)
  \/ \E b \in 1..MaxBodies : py_init(b)
  \/ \E t \in ElapsedValues : update_begin(t)
  \/ update_half1
  \/ update_gravity
  \/ update_half2
  \/ update_return
  \/ \E v \in DirectTimeScales : set_time_scale(v)

\* the Universe class used without the settings window: time_scale is
\* written as a field, with any sign
SpecDirect == Init /\ [][NextDirect]_vars

\* a step of the thread that runs update(): straight-line compiled code that
\* never blocks, so a started call keeps taking steps
UpdateStep == update_half1 \/ update_gravity \/ update_half2 \/ update_return

\* the state main.py sets up before pyglet.app.run(): three bodies constructed
\* and registered one after the other
InitThree ==
  /\ \E a \in BodyInputs : \E b \in BodyInputs : \E c \in BodyInputs :
       objs = << [ MassiveBody(a[1], a[2], a[3], a[4]) EXCEPT !.id = 0 ],
                 [ MassiveBody(b[1], b[2], b[3], b[4]) EXCEPT !.id = 1 ],
                 [ MassiveBody(c[1], c[2], c[3], c[4]) EXCEPT !.id = 2 ] >>
  /\ massive_bodies = << 1, 2, 3 >>
  /\ current_id = 3
  /\ time_scale = 1
  /\ speed_slider = 0
  /\ speed_combobox = 0
  /\ value_changing = FALSE
  /\ stack = << >>
  /\ pc = "idle"
  /\ delta_time = 0
  /\ steps = << >>
  /\ step = 0
  /\ elapsed = 0
  /\ ts_read = 1
  /\ pre = << >>
  /\ substeps = << >>
  /\ trace = << >>
  /\ updates = 0

NextThree ==
  \/ \E t \in ElapsedValues : update_begin(t)
  \/ update_half1
  \/ update_gravity
  \/ update_half2
  \/ update_return
  \/ \E v \in DirectTimeScales : set_time_scale(v)

\* update() calls on three registered bodies
SpecThree == InitThree /\ [][NextThree]_vars

\* two bodies constructed one after the other, the first registered and the
\* second registered or not yet
InitPair ==
  /\ \E a \in BodyInputs : \E b \in BodyInputs :
       \/ /\ objs = << [ MassiveBody(a[1], a[2], a[3], a[4]) EXCEPT !.id = 0 ],
                        [ MassiveBody(b[1], b[2], b[3], b[4]) EXCEPT !.id = 1 ] >>
          /\ massive_bodies = << 1, 2 >>
       \/ /\ objs = << [ MassiveBody(a[1], a[2], a[3], a[4]) EXCEPT !.id = 0 ],
                        MassiveBody(b[1], b[2], b[3], b[4]) >>
          /\ massive_bodies = << 1 >>
  /\ current_id = Len(massive_bodies)
  /\ time_scale = 1
  /\ speed_slider = 0
  /\ speed_combobox = 0
  /\ value_changing = FALSE
  /\ stack = << >>
  /\ pc = "idle"
  /\ delta_time = 0
  /\ steps = << >>
  /\ step = 0
  /\ elapsed = 0
  /\ ts_read = 1
  /\ pre = << >>
  /\ substeps = << >>
  /\ trace = << >>
  /\ updates = 0

NextPair ==
  \/ \E t \in ElapsedValues : update_begin(t)
  \/ update_half1
  \/ update_gravity
  \/ update_half2
  \/ update_return
  \/ \E idx \in 0..MaxSpeedIndex : on_speed_slider_change(idx)
  \/ \E new_index \in 0..MaxSpeedIndex : on_speed_combobox_change(new_index)

\* the application once its bodies are set up: update() calls and the
\* settings window
SpecPair == InitPair /\ [][NextPair]_vars

NextSettings ==
  \/ \E t \in ElapsedValues : update_begin(t)
  \/ update_half1
  \/ update_gravity
  \/ update_half2
  \/ update_return
  \/ \E idx \in 0..MaxSpeedIndex : speed_slider_valueChanged(idx)
  \/ \E new_index \in 0..MaxSpeedIndex :
       speed_combobox_currentIndexChanged(new_index)
  \/ on_speed_change_guard
  \/ on_speed_slider_change_write
  \/ on_speed_slider_change_sync
  \/ on_speed_combobox_change_write
  \/ on_speed_combobox_change_sync
  \/ on_speed_change_clear

\* the application with the settings thread's callbacks taken line by line,
\* interleaved with the thread that runs update()
SpecSettings == InitPair /\ [][NextSettings]_vars

\* update() calls on these bodies, a started call running on
SpecPairFair == InitPair /\ [][NextThree]_vars /\ WF_vars(UpdateStep)

\* ------------------------------------------------------------------------
\* Properties
\* ------------------------------------------------------------------------
RECURSIVE SumSeq(_)
SumSeq(s) == IF s = << >> THEN 0 ELSE Head(s) + SumSeq(Tail(s))

Registered == { massive_bodies[k] : k \in 1..Len(massive_bodies) }

NoDuplicates(s) == \A i, j \in 1..Len(s) : i /= j => s[i] /= s[j]

RECURSIVE MomentumUpTo(_, _)
\* sum of mass * velocity over the registered objects with handle <= n
MomentumUpTo(o, n) ==
  IF n = 0 THEN Zero2
  ELSE VAdd(MomentumUpTo(o, n - 1),
            IF n \in Registered THEN VScale(o[n].mass, o[n].velocity) ELSE Zero2)

Momentum(o) == MomentumUpTo(o, Len(o))

CoincidentPair ==
  \E i, j \in 1..Len(massive_bodies) :
    /\ i < j
    /\ objs[massive_bodies[i]].position = objs[massive_bodies[j]].position

Min(a, b) == IF a < b THEN a ELSE b

\* the state one substep cycle of length h produces from the heap o
SingleCycle(o, h) ==
  LET a == HalfStepLoop(o, massive_bodies, 1, h, is_first_step(1, 1))
      g == GravityLoop(a, massive_bodies, 1, 2)
  IN  HalfStepLoop(g.objs, massive_bodies, 1, h, is_first_step(1, 2))

\* C1: when update(0) returns, every body's position, velocity and
\* acceleration are what they were when the call was entered, whatever
\* time_scale is.
C1_UpdateZeroIsNoOp ==
  (pc = "done" /\ elapsed = 0) =>
    \A b \in 1..Len(objs) :
      /\ objs[b].position = pre[b].position
      /\ objs[b].velocity = pre[b].velocity
      /\ objs[b].acceleration = pre[b].acceleration

C1_Witness ==
  /\ pc = "done"
  /\ elapsed = 0
  /\ ts_read < 0
  /\ Len(massive_bodies) >= 2
  /\ Len(substeps) = 1

\* C2: current_id is the number of registrations made, and when the
\* registered bodies are distinct objects the k-th registered body (index
\* k - 1 of massive_bodies) has id k - 1.
C2_IdsInRegistrationOrder ==
  /\ current_id = Len(massive_bodies)
  /\ NoDuplicates(massive_bodies) =>
       \A k \in 1..Len(massive_bodies) : objs[massive_bodies[k]].id = k - 1

C2_Witness ==
  /\ Len(massive_bodies) >= 2
  /\ NoDuplicates(massive_bodies)
  /\ massive_bodies[1] = 2

C5_SubstepIsMinOfRemaining ==
  (pc /= "idle" /\ delta_time > 0) =>
    \A k \in 1..Len(substeps) :
      LET remaining == delta_time - SumSeq(SubSeq(substeps, 1, k - 1))
      IN  /\ substeps[k] = Min(remaining, MAX_DELTA_TIME)
          /\ 0 < substeps[k]
          /\ substeps[k] <= MAX_DELTA_TIME

\* C6: when update() returns from a call with elapsed * time_scale = 3600,
\* every body's position and velocity are those one substep cycle of length
\* 3600 produces from the state at entry.
C6_BoundaryEqualsSingleCycle ==
  (pc = "done" /\ elapsed * ts_read = MAX_DELTA_TIME) =>
    \A b \in 1..Len(objs) :
      /\ objs[b].position = SingleCycle(pre, MAX_DELTA_TIME)[b].position
      /\ objs[b].velocity = SingleCycle(pre, MAX_DELTA_TIME)[b].velocity

C6_Witness ==
  /\ pc = "done"
  /\ elapsed * ts_read = MAX_DELTA_TIME
  /\ \E b \in Registered : objs[b].velocity /= pre[b].velocity

\* C7 (as claimed): a body with mass <= 0 or radius < 0 is never constructed,
\* so never registered: every constructed body has mass > 0 and radius >= 0.
C7_InvalidBodyRejected ==
  \A b \in 1..Len(objs) : objs[b].mass > 0 /\ objs[b].radius >= 0

\* C8: when the pair forces are evaluated while two registered bodies have
\* the same position, update() ends in the error, and nothing resumes it:
\* it never returns normally.
C8_CoincidentPairIsFatal ==
  [][ /\ (pc = "gravity" /\ CoincidentPair /\ pc' /= pc) => pc' = "error"
      /\ pc = "error" => pc' = "error" ]_vars

C8_Witness ==
  /\ pc = "error"
  /\ CoincidentPair
  /\ NoDuplicates(massive_bodies)

\* C9: the total and every substep length of a running update() call are
\* those of time_scale as it was when the call was entered, whatever is
\* written to time_scale while the call runs.
C9_TimeScaleReadOnce ==
  pc /= "idle" =>
    /\ delta_time = elapsed * ts_read
    /\ Len(substeps) + Len(steps) =
         Len(arange(0, elapsed * ts_read + MAX_DELTA_TIME, MAX_DELTA_TIME))
    /\ \A k \in 1..Len(substeps) :
         substeps[k] = StepLength(elapsed * ts_read, (k - 1) * MAX_DELTA_TIME)

C9_Witness ==
  /\ pc = "done"
  /\ time_scale /= ts_read
  /\ Len(substeps) >= 2
  /\ elapsed * time_scale > delta_time

\* C10 (as claimed): with a negative time_scale and elapsed > 0, update()
\* advances the simulation by total = elapsed * time_scale: the substeps sum
\* to total and a single body's position changes by velocity * total.
C10_NegativeTotalReversesTime ==
  (pc = "done" /\ ts_read < 0 /\ elapsed > 0) =>
    /\ SumSeq(substeps) = elapsed * ts_read
    /\ Len(massive_bodies) = 1 =>
         LET b == massive_bodies[1]
         IN  objs[b].position =
               VAdd(pre[b].position, VScale(elapsed * ts_read, pre[b].velocity))

\* C10 (amended): with a negative time_scale and elapsed > 0, update()
\* executes one substep of length total when -3600 < total < 0 (a single
\* body's position changes by velocity * total), and executes no substep and
\* changes nothing when total <= -3600.
C10_NegativeTotalBounded ==
  (pc = "done" /\ ts_read < 0 /\ elapsed > 0) =>
    LET total == elapsed * ts_read
    IN  IF total > -MAX_DELTA_TIME
          THEN /\ substeps = << total >>
               /\ Len(massive_bodies) = 1 =>
                    LET b == massive_bodies[1]
                    IN  objs[b].position =
                          VAdd(pre[b].position, VScale(total, pre[b].velocity))
          ELSE /\ substeps = << >>
               /\ objs = pre

C10_Witness ==
  /\ pc = "done"
  /\ ts_read < 0
  /\ elapsed * ts_read < -MAX_DELTA_TIME
  /\ Len(massive_bodies) = 1
  /\ objs[massive_bodies[1]].velocity /= Zero2

\* C11: every step of update() leaves every body's mass, radius and id, the
\* sequence massive_bodies, current_id and time_scale as they are (the steps
\* of update() are the steps that change pc).
C11_UpdateFrame ==
  [][ pc' /= pc =>
        /\ massive_bodies' = massive_bodies
        /\ current_id' = current_id
        /\ time_scale' = time_scale
        /\ Len(objs') = Len(objs)
        /\ \A b \in 1..Len(objs) :
             /\ objs'[b].mass = objs[b].mass
             /\ objs'[b].radius = objs[b].radius
             /\ objs'[b].id = objs[b].id ]_vars

C11_Witness ==
  /\ pc = "done"
  /\ Len(trace) >= 6
  /\ \E b \in Registered :
       /\ objs[b].position /= pre[b].position
       /\ objs[b].velocity /= pre[b].velocity

\* C12: a body's id is -1 while the body is unregistered, and once it has been
\* assigned no later operation (update step, time_scale write, registration
\* call on any body) changes it.
C12_IdAssignedOnce ==
  [][ \A b \in 1..Len(objs) :
        /\ (b \notin Registered => objs[b].id = -1)
        /\ (objs[b].id /= -1 => objs'[b].id = objs[b].id) ]_vars

Running == pc \in { "half1", "gravity", "half2" }

\* the number of substeps update() runs for the scaled time total
SubstepCount(total) ==
  IF total > 0 THEN (total + MAX_DELTA_TIME - 1) \div MAX_DELTA_TIME + 1
  ELSE IF total > -MAX_DELTA_TIME THEN 1
  ELSE 0

\* C13 as stated: every update() call that has started returns.
C13_UpdateReturns == Running ~> (pc = "done")

\* C13: every update() call that has started ends after a bounded number of
\* substeps: it returns, or it leaves with the ZeroDivisionError of a
\* coincident pair; it never runs more substeps than its scaled time allows.
C13_UpdateTerminates ==
  /\ Running ~> (pc \in { "done", "error" })
  /\ [](pc /= "idle" => Len(substeps) <= SubstepCount(delta_time))
  /\ [](pc = "done" => Len(substeps) = SubstepCount(delta_time))

C13_Witness ==
  /\ pc = "done"
  /\ elapsed > 0
  /\ Len(substeps) = 3

\* C15: within one update() call the first half-step of the first substep
\* skips the kick, and every other half-step of the call applies it.
C15_KickSkippedOnlyFirst ==
  \A i \in 1..Len(trace) :
    trace[i][1] \in { "half1", "half2" } => (trace[i][2] <=> i /= 1)

C15_Witness ==
  /\ pc = "done"
  /\ Len(trace) >= 6
  /\ trace[1] = << "half1", FALSE >>
  /\ trace[3] = << "half2", TRUE >>
  /\ trace[4] = << "half1", TRUE >>

Phases == << "half1", "gravity", "half2" >>

AccelerationsZero == \A b \in Registered : objs[b].acceleration = Zero2

\* C16: the phases of a call run in the order first half-steps, pair forces,
\* second half-steps, substep after substep: every body has completed its
\* first half-step (its acceleration is reset) before the pair forces, and
\* substep k+1 starts only after the second half-step of substep k.
C16_PhasesOrdered ==
  /\ \A i \in 1..Len(trace) : trace[i][1] = Phases[((i - 1) % 3) + 1]
  /\ Len(substeps) = (Len(trace) + 2) \div 3
  /\ pc = "gravity" => Len(trace) % 3 = 1 /\ AccelerationsZero
  /\ pc \in { "half2", "error" } => Len(trace) % 3 = 2
  /\ pc \in { "half1", "done" } => Len(trace) % 3 = 0 /\ AccelerationsZero

C16_Witness ==
  /\ pc = "half2"
  /\ Len(trace) = 5
  /\ Len(substeps) = 2
  /\ Len(massive_bodies) = 2
  /\ \E b \in Registered : objs[b].position /= pre[b].position

\* the unordered pairs of distinct indices of a collection of n bodies
IndexPairs(n) == { p \in (1..n) \X (1..n) : p[1] < p[2] }

\* the gravity phases of the call so far that ran to their end
CompletedGravity ==
  { i \in 1..Len(trace) :
      trace[i][1] = "gravity" /\ (i < Len(trace) \/ pc /= "error") }

\* C17: in each substep apply_mirrored_gravity is evaluated exactly once for
\* each index pair i < j: never for an index with itself, never twice for a
\* pair, no pair skipped, N * (N - 1) / 2 evaluations for N bodies.
C17_EachPairOnce ==
  \A i \in 1..Len(trace) :
    trace[i][1] = "gravity" =>
      LET e == trace[i][2]
          N == Len(massive_bodies)
      IN  /\ \A k \in 1..Len(e) : e[k] \in IndexPairs(N)
          /\ \A k, l \in 1..Len(e) : k /= l => e[k] /= e[l]
          /\ i \in CompletedGravity =>
               /\ { e[k] : k \in 1..Len(e) } = IndexPairs(N)
               /\ 2 * Len(e) = N * (N - 1)

C17_Witness ==
  /\ pc = "done"
  /\ Len(massive_bodies) = 3
  /\ Len(trace) >= 6
  /\ Len(trace[2][2]) = 3
  /\ Len(trace[5][2]) = 3

\* substep lengths handed to update_half_step
HalfStepLengths == { -2880, 0, 2, MAX_DELTA_TIME }

\* r is what C18 says of one half-step of length h on the body self
HalfStepContract(self, r, h, kick) ==
  /\ \A c \in 1..2 :
       /\ r.velocity[c] - self.velocity[c]
            = (IF kick THEN self.acceleration[c] * h ELSE 0)
       /\ 2 * (r.position[c] - self.position[c]) = r.velocity[c] * h
  /\ r.acceleration = << 0, 0 >>
  /\ r.mass = self.mass /\ r.radius = self.radius /\ r.id = self.id

\* C18: update_half_step(h, is_first_step) with the kick sets velocity to
\* velocity + acceleration * h and position to position + velocity' * h / 2
\* with the updated velocity; with the kick skipped it leaves velocity and
\* sets position to position + velocity * h / 2; both reset acceleration to
\* zero. Stated of the function on every body of every reachable state, and
\* of the second half-step that update() takes.
C18_HalfStepFormulas ==
  /\ [](\A b \in 1..Len(objs) : \A h \in HalfStepLengths :
          \A skip \in BOOLEAN :
            HalfStepContract(objs[b], update_half_step(objs[b], h, skip),
                             h, ~skip))
  /\ [][ pc = "half2" /\ pc' /= pc /\ NoDuplicates(massive_bodies) =>
          \A b \in Registered :
            HalfStepContract(objs[b], objs'[b], step, TRUE) ]_vars

C18_Witness ==
  /\ pc \in { "half1", "done" }
  /\ Len(trace) = 3
  /\ NoDuplicates(massive_bodies)
  /\ \E b \in Registered :
       /\ objs[b].velocity /= pre[b].velocity
       /\ objs[b].position /= pre[b].position
       /\ \A c \in 1..2 :
            2 * (objs[b].position[c] - pre[b].position[c])
              = step * (pre[b].velocity[c] + objs[b].velocity[c])

\* n is the heap o after one mirrored evaluation on the bodies i and j as C19
\* describes it: one field k * (position_j - position_i) shared by both bodies
PairContract(o, n, i, j) ==
  LET d == VSub(o[j].position, o[i].position)
      da_i == VSub(n[i].acceleration, o[i].acceleration)
      da_j == VSub(n[j].acceleration, o[j].acceleration)
  IN  /\ \E k \in 0..G :
           /\ da_i = << o[j].mass * k * d[1], o[j].mass * k * d[2] >>
           /\ da_j = << -(o[i].mass * k * d[1]), -(o[i].mass * k * d[2]) >>
      /\ \A c \in 1..2 : o[i].mass * da_i[c] + o[j].mass * da_j[c] = 0
      /\ Len(n) = Len(o)
      /\ \A b \in 1..Len(o) :
           /\ n[b].position = o[b].position
           /\ n[b].velocity = o[b].velocity
           /\ n[b].mass = o[b].mass
           /\ b \notin { i, j } => n[b] = o[b]

\* C19: one apply_mirrored_gravity on two bodies at distinct positions adds
\* field * mass_j to the first body's acceleration and subtracts field * mass_i
\* from the second's, with one shared field, so that
\* mass_i * da_i + mass_j * da_j = 0; it changes no position, velocity or
\* mass and no field of a third body. The pair-force phase of update() as a
\* whole changes accelerations only.
C19_MirroredPair ==
  /\ [](\A i, j \in 1..Len(objs) :
          i /= j /\ objs[i].position /= objs[j].position =>
            LET r == apply_mirrored_gravity(objs, i, j)
            IN  ~r.err /\ PairContract(objs, r.objs, i, j))
  /\ [][ pc = "gravity" /\ pc' /= pc =>
          \A b \in 1..Len(objs) :
            /\ objs'[b].position = objs[b].position
            /\ objs'[b].velocity = objs[b].velocity
            /\ objs'[b].mass = objs[b].mass ]_vars

C19_Witness ==
  /\ pc = "half2"
  /\ \E i, j, k \in Registered :
       /\ objs[i].acceleration /= Zero2
       /\ objs[j].acceleration /= Zero2
       /\ i /= j
       /\ objs[i].mass * objs[i].acceleration[1]
            + objs[j].mass * objs[j].acceleration[1] = 0
       /\ objs[k].acceleration = Zero2

\* C20: after construction and after every update() that returns, every
\* body's acceleration is zero; so it is zero at the first half-step of every
\* substep, where applying the kick and skipping it give the same body state.
C20_AccelerationZeroBetweenCalls ==
  pc \in { "idle", "half1", "done" } =>
    /\ \A b \in 1..Len(objs) : objs[b].acceleration = << 0, 0 >>
    /\ \A b \in 1..Len(objs) : \A h \in HalfStepLengths :
         update_half_step(objs[b], h, TRUE) = update_half_step(objs[b], h, FALSE)

C20_Witness ==
  /\ pc = "half1"
  /\ Len(substeps) >= 1
  /\ \E b \in Registered :
       /\ objs[b].velocity /= pre[b].velocity
       /\ objs[b].acceleration = Zero2

\* slider, combobox and time_scale name the same entry of SPEEDS
SpeedsAgree(slider, combobox, scale) ==
  /\ slider = combobox
  /\ scale = SPEEDS[combobox + 1]
  /\ scale > 0
  /\ \E k \in 1..Len(SPEEDS) : scale = SPEEDS[k]

\* C21: whenever a change handler returns, the slider value equals the
\* combobox index and time_scale is the speed listed at that index, a
\* positive entry of SPEEDS; a callback triggered from inside a handler stays
\* at the value_changing test and returns from it with no effect, so at most
\* one handler body runs at a time.
C21_SpeedControlsConsistent ==
  /\ [](/\ \E k \in 1..Len(SPEEDS) : time_scale = SPEEDS[k] /\ time_scale > 0
        /\ Len(stack) <= 2
        /\ \A k \in 2..Len(stack) : stack[k].at = "guard" /\ value_changing
        /\ stack = << >> =>
             ~value_changing /\ SpeedsAgree(speed_slider, speed_combobox,
                                            time_scale))
  /\ [][ /\ Len(stack') < Len(stack) =>
             SpeedsAgree(speed_slider', speed_combobox', time_scale')
         /\ (Len(stack) = 2 /\ stack' /= stack) =>
             /\ stack' = << stack[1] >>
             /\ UNCHANGED << time_scale, speed_slider, speed_combobox,
                             value_changing >> ]_vars

C21_Witness ==
  /\ Len(stack) = 1
  /\ stack[1] = [ handler |-> "combobox", new_index |-> 1, at |-> "clear" ]
  /\ value_changing
  /\ speed_slider = 1
  /\ speed_combobox = 1
  /\ time_scale = SPEEDS[2]
  /\ pc = "gravity"
  /\ ts_read = SPEEDS[1]

====
